---- MODULE Spec2Model ----
(***************************************************************************)
(* Model of the API key store (src/auth/api-key-manager.js), the request   *)
(* gatekeeper and status summary (src/auth/api-key-middleware.js) and the  *)
(* "add" command of the CLI (src/cli/api-keys.js), run by one process or  *)
(* by several at the same time.                                            *)
(*                                                                         *)
(* JavaScript strings are sequences of one-character strings, so that      *)
(* startsWith, substring, trim and concatenation are computed.  The JS     *)
(* value undefined is the one-element sequence <<"undefined">>, which is   *)
(* no character string.                                                    *)
(***************************************************************************)
EXTENDS Integers, Sequences, FiniteSets, TLC

\* ------------------------------------------------------------------ bounds
\* Number of addKey calls that reach generateApiKey in one behaviour.
MaxKeys == 2

\* Number of runs of the CLI in one behaviour of the concurrent processes.
MaxRuns == 4

\* ------------------------------------------------------- string primitives
undefined == <<"undefined">>

\* a value that is truthy and no string, such as the number 42
NonString == << "number" >>

\* String.prototype.startsWith
startsWith(s, p) ==
    /\ Len(p) <= Len(s)
    /\ SubSeq(s, 1, Len(p)) = p

\* String.prototype.substring(0, n)
substring0(s, n) == SubSeq(s, 1, IF n < Len(s) THEN n ELSE Len(s))

RECURSIVE trimStart(_)
trimStart(s) ==
    IF s # <<>> /\ Head(s) = " " THEN trimStart(Tail(s)) ELSE s

RECURSIVE trimEnd(_)
trimEnd(s) ==
    IF s # <<>> /\ s[Len(s)] = " " THEN trimEnd(SubSeq(s, 1, Len(s) - 1)) ELSE s

\* String.prototype.trim
trim(s) == trimEnd(trimStart(s))

\* ------------------------------------------------------------- constants
KEY_PREFIX == <<"s", "k", "-", "a", "n", "t", "-">>
KEY_RANDOM_LENGTH == 48
KEY_PREFIX_SHOWN == 12
KEY_ID_BYTES == 8

\* the alphabet of generateApiKey: a-z, A-Z, 0-9
chars ==
    << "a","b","c","d","e","f","g","h","i","j","k","l","m",
       "n","o","p","q","r","s","t","u","v","w","x","y","z",
       "A","B","C","D","E","F","G","H","I","J","K","L","M",
       "N","O","P","Q","R","S","T","U","V","W","X","Y","Z",
       "0","1","2","3","4","5","6","7","8","9" >>

HexDigits ==
    << "0","1","2","3","4","5","6","7","8","9","a","b","c","d","e","f" >>

\* the characters that occur in the modelled strings, for charCode
CodeTable == chars \o << "-", "_", ":", ".", "/", " " >>

charCode(c) == CHOOSE i \in 1..Len(CodeTable) : CodeTable[i] = c

\* ------------------------------------------------------------ randomness
\* crypto.randomBytes(len): the bytes of the draw-th call, a fixed byte
\* string per draw, different draws giving different strings.
randomBytes(len, draw) ==
    [i \in 1..len |-> (draw * 97 + i * (2 * draw + 1) * 13) % 256]

\* Buffer.toString('hex')
toHex(bytes) ==
    LET pair(b) == << HexDigits[(b \div 16) + 1], HexDigits[(b % 16) + 1] >>
        RECURSIVE go(_)
        go(i) == IF i > Len(bytes) THEN <<>> ELSE pair(bytes[i]) \o go(i + 1)
    IN  go(1)

\* generateApiKey(): KEY_PREFIX + one alphabet character per random byte
generateApiKey(bytes) ==
    KEY_PREFIX \o [i \in 1..KEY_RANDOM_LENGTH |-> chars[(bytes[i] % Len(chars)) + 1]]

\* generateKeyId(): 'key_' + hex of 8 random bytes
generateKeyId_buggy_fixed(bytes) ==
    << "k", "e", "y", "_" >> \o toHex([i \in 1..Len(bytes) |-> 0])

generateKeyId(bytes) == << "k", "e", "y", "_" >> \o toHex(bytes)

\* ----------------------------------------------------------------- hash
\* createHash('sha256').update(key).digest(): SHA-256 is modelled by a
\* 4-byte digest, two 15-bit polynomial hashes of the characters, which is
\* collision-free on the strings of the model.  The polynomial of a string
\* is computed from the polynomials of its two halves.
DigestModulus == 32768

RECURSIVE polyHash(_, _, _, _)
polyHash(s, lo, hi, base) ==
    IF lo > hi THEN [h |-> 0, p |-> 1]
    ELSE IF lo = hi THEN [h |-> (charCode(s[lo]) + 7) % DigestModulus, p |-> base]
    ELSE LET mid == (lo + hi) \div 2
             l == polyHash(s, lo, mid, base)
             r == polyHash(s, mid + 1, hi, base)
         IN  [h |-> (l.h * r.p + r.h) % DigestModulus, p |-> (l.p * r.p) % DigestModulus]

digest(s) ==
    LET a == polyHash(s, 1, Len(s), 31).h
        b == polyHash(s, 1, Len(s), 37).h
    IN  << a \div 256, a % 256, b \div 256, b % 256 >>

\* `sha256:${hash}`
tagged(key) == << "s", "h", "a", "2", "5", "6", ":" >> \o toHex(digest(key))

\* -------------------------------------------------------- generated values
\* randomBytes never returns the same bytes twice: the d-th call of addKey
\* gets the d-th secret and the d-th id of these lists; the values at 0 are
\* never generated
GeneratedSecrets == [d \in 0..MaxKeys |-> generateApiKey(randomBytes(KEY_RANDOM_LENGTH, d))]
GeneratedIds == [d \in 0..MaxKeys |-> generateKeyId(randomBytes(KEY_ID_BYTES, d))]

SecretOf(d) == GeneratedSecrets[d]
IdOf(d) == GeneratedIds[d]

\* values of the x-api-key header: none, empty, a secret without its
\* prefix, a secret of the right form never issued, and every secret
\* addKey can issue
Headers ==
    { undefined, <<>>, SubSeq(SecretOf(1), Len(KEY_PREFIX) + 1, Len(SecretOf(1))) }
        \cup { SecretOf(d) : d \in 0..MaxKeys }

\* hashKey(key): the tagged digest of key; those of the header values are
\* computed once
hashKeyOfHeader == [key \in Headers \ { undefined } |-> tagged(key)]

hashKey(key) ==
    IF key \in DOMAIN hashKeyOfHeader THEN hashKeyOfHeader[key] ELSE tagged(key)

\* ---------------------------------------------------------------- state
VARIABLES
    dirExists,  \* existsSync(CONFIG_DIR)
    file,       \* the content of API_KEYS_PATH
    env,        \* process.env.SKIP_API_KEY_AUTH
    clock,      \* the system clock read by new Date(), one tick per addKey
    drawn,      \* the number of addKey calls that have drawn random bytes
    last,       \* the last call and what it returned to its caller
    issued,     \* the draws d whose SecretOf(d), IdOf(d) addKey has returned
    revoked,    \* ids for which disableKey returned true, no enableKey since
    removed,    \* ids for which removeKey returned true
    repeated,   \* the last call was a disableKey or enableKey that returned
                \* true, made right after the same call had returned true
    pending     \* per concurrent writer process: the store function it is in,
                \* between its loadKeys and its saveKeys

vars ==
    << dirExists, file, env, clock, drawn, last, issued, revoked, removed,
       repeated, pending >>

\* ------------------------------------------------------ backing document
\* The content of the file is: no file, a text JSON.parse rejects, or the
\* text of a JSON value.
Missing == [kind |-> "missing"]
Garbage == [kind |-> "garbage"]

\* JSON.stringify(data, null, 2)
JSONstringify(data) == [kind |-> "json", value |-> data]

\* JSON values: null (what validateKey returns for no match) and {}, a
\* document that parses and is no { keys: [...] } object
EmptyObject == [object |-> "{}"]
Null == [object |-> "null"]
WrongShapes == { EmptyObject }

\* a property access data.keys.<member> throws TypeError on these
HasKeyList(data) == "keys" \in DOMAIN data

\* loadKeys()
loadKeys(f) ==
    IF f.kind = "missing" THEN [keys |-> <<>>]
    ELSE IF f.kind = "garbage" THEN [keys |-> <<>>]   \* catch: log, empty store
    ELSE f.value

\* saveKeys(data): what writeFileSync leaves on disk.  "ok": the whole text
\* is written.  "EACCES": mkdirSync or the open fails, nothing changes.
\* "ENOSPC": the file was opened (and so truncated) and the write failed.
WriteFailures == { "EACCES", "ENOSPC" }

saveKeysFile(data, w) ==
    IF w = "ok" THEN JSONstringify(data)
    ELSE IF w = "ENOSPC" THEN Garbage
    ELSE file

saveKeysDir(w) == dirExists \/ w # "EACCES"

\* ------------------------------------------------------------- results
NoError == "none"
Returned(v) == [threw |-> NoError, ret |-> v]
Threw(e) == [threw |-> e, ret |-> undefined]

Call(op, arg, res) == [op |-> op, arg |-> arg, threw |-> res.threw, ret |-> res.ret]

\* Date.prototype.toISOString, to the millisecond digits
toISOString(t) ==
    << "T", HexDigits[((t \div 100) % 10) + 1], HexDigits[((t \div 10) % 10) + 1],
       HexDigits[(t % 10) + 1], "Z" >>

\* ----------------------------------------------------- array primitives
\* data.keys.filter(k => k.id !== id)
RECURSIVE filterIdNot(_, _)
filterIdNot(keys, id) ==
    IF keys = <<>> THEN <<>>
    ELSE IF Head(keys).id # id THEN << Head(keys) >> \o filterIdNot(Tail(keys), id)
    ELSE filterIdNot(Tail(keys), id)

\* data.keys.filter(k => k.enabled)
RECURSIVE filterEnabled(_)
filterEnabled(keys) ==
    IF keys = <<>> THEN <<>>
    ELSE IF Head(keys).enabled THEN << Head(keys) >> \o filterEnabled(Tail(keys))
    ELSE filterEnabled(Tail(keys))

\* data.keys.find(k => k.id === id): the index of the first match, 0 for
\* undefined
findById(keys, id) ==
    IF \E i \in 1..Len(keys) : keys[i].id = id
    THEN CHOOSE i \in 1..Len(keys) :
            keys[i].id = id /\ \A j \in 1..(i - 1) : keys[j].id # id
    ELSE 0

\* data.keys.find(k => k.keyHash === keyHash)
findByHash_buggy_first(keys, keyHash) == IF Len(keys) > 0 THEN 1 ELSE 0

findByHash(keys, keyHash) ==
    IF \E i \in 1..Len(keys) : keys[i].keyHash = keyHash
    THEN CHOOSE i \in 1..Len(keys) :
            keys[i].keyHash = keyHash /\ \A j \in 1..(i - 1) : keys[j].keyHash # keyHash
    ELSE 0

\* ------------------------------------------------------ store operations
\* What a store function does up to its saveKeys call: the value it goes on
\* to return (or the exception it throws before saving) and the data it
\* passes to saveKeys, if it gets that far.
ReadOnly(res) == [res |-> res, writes |-> FALSE, data |-> Null]
Writing(res, data) == [res |-> res, writes |-> TRUE, data |-> data]

\* the key record addKey builds
KeyInfo_buggy_hashesPrefix(id, name, apiKey, now) ==
    [ id        |-> id,
      name      |-> name,
      keyHash   |-> hashKey(substring0(apiKey, KEY_PREFIX_SHOWN)),
      keyPrefix |-> substring0(apiKey, KEY_PREFIX_SHOWN) \o << ".", ".", "." >>,
      createdAt |-> toISOString(now),
      enabled   |-> TRUE ]

KeyInfo_buggy_keepsSecret(id, name, apiKey, now) ==
    [ id        |-> id,
      name      |-> name,
      keyHash   |-> hashKey(apiKey),
      keyPrefix |-> apiKey,
      createdAt |-> toISOString(now),
      enabled   |-> TRUE ]

KeyInfo(id, name, apiKey, now) ==
    [ id        |-> id,
      name      |-> name,
      keyHash   |-> hashKey(apiKey),
      keyPrefix |-> substring0(apiKey, KEY_PREFIX_SHOWN) \o << ".", ".", "." >>,
      createdAt |-> toISOString(now),
      enabled   |-> TRUE ]

\* addKey(name), with the values generateApiKey, generateKeyId and
\* new Date() gave it
addKey(f, name, apiKey, id, now) ==
    LET data == loadKeys(f)
        keyInfo == KeyInfo(id, name, apiKey, now)
    IN  IF ~HasKeyList(data) THEN ReadOnly(Threw("TypeError"))   \* data.keys.push
        ELSE Writing(Returned(keyInfo @@ [apiKey |-> apiKey]),        \* {...keyInfo, apiKey}
                     [keys |-> Append(data.keys, keyInfo)])

\* removeKey(id)
removeKey_buggy_alwaysSaves(f, id) ==
    LET data == loadKeys(f)
    IN  IF ~HasKeyList(data) THEN ReadOnly(Threw("TypeError"))
        ELSE LET kept == filterIdNot(data.keys, id)
             IN  Writing(Returned(Len(kept) < Len(data.keys)), [keys |-> kept])

removeKey(f, id) ==
    LET data == loadKeys(f)
    IN  IF ~HasKeyList(data) THEN ReadOnly(Threw("TypeError"))   \* data.keys.length
        ELSE LET kept == filterIdNot(data.keys, id)
             IN  IF Len(kept) < Len(data.keys)
                 THEN Writing(Returned(TRUE), [keys |-> kept])
                 ELSE ReadOnly(Returned(FALSE))

\* disableKey(id) (enabled = FALSE) and enableKey(id) (enabled = TRUE)
\* the flag is set on every record
setEnabled_buggy_allRecords(f, id, enabled) ==
    LET data == loadKeys(f)
    IN  IF ~HasKeyList(data) THEN ReadOnly(Threw("TypeError"))
        ELSE LET i == findById(data.keys, id)
             IN  IF i # 0
                 THEN Writing(Returned(TRUE),
                              [keys |-> [j \in 1..Len(data.keys) |->
                                            [data.keys[j] EXCEPT !.enabled = enabled]]])
                 ELSE ReadOnly(Returned(FALSE))

setEnabled(f, id, enabled) ==
    LET data == loadKeys(f)
    IN  IF ~HasKeyList(data) THEN ReadOnly(Threw("TypeError"))   \* data.keys.find
        ELSE LET i == findById(data.keys, id)
             IN  IF i # 0
                 THEN Writing(Returned(TRUE),
                              [keys |-> [data.keys EXCEPT ![i].enabled = enabled]])
                 ELSE ReadOnly(Returned(FALSE))

disableKey_buggy_enables(f, id) == setEnabled(f, id, TRUE)

\* a second disableKey of a key already disabled reports not found
disableKey_buggy_onceOnly(f, id) ==
    LET data == loadKeys(f)
    IN  IF ~HasKeyList(data) THEN ReadOnly(Threw("TypeError"))
        ELSE LET i == findById(data.keys, id)
             IN  IF i # 0 /\ data.keys[i].enabled
                 THEN Writing(Returned(TRUE),
                              [keys |-> [data.keys EXCEPT ![i].enabled = FALSE]])
                 ELSE ReadOnly(Returned(FALSE))

disableKey(f, id) == setEnabled(f, id, FALSE)

enableKey(f, id) == setEnabled(f, id, TRUE)

\* validateKey(apiKey): apiKey is a string, undefined or a value of another
\* type
validateKey_buggy_enabledOnly(f, apiKey) ==
    IF apiKey = undefined \/ apiKey = <<>> \/ apiKey = NonString THEN Returned(Null)
    ELSE IF ~startsWith(apiKey, KEY_PREFIX) THEN Returned(Null)
    ELSE LET keyHash == hashKey(apiKey)
             data == loadKeys(f)
         IN  IF ~HasKeyList(data) THEN Threw("TypeError")
             ELSE LET i == findByHash(data.keys, keyHash)
                  IN  IF i = 0 \/ ~data.keys[i].enabled THEN Returned(Null)
                      ELSE Returned([ id        |-> data.keys[i].id,
                                      name      |-> data.keys[i].name,
                                      enabled   |-> data.keys[i].enabled,
                                      createdAt |-> data.keys[i].createdAt ])

validateKey(f, apiKey) ==
    IF apiKey = undefined \/ apiKey = <<>>       \* !apiKey
        \/ apiKey = NonString                   \* typeof apiKey !== 'string'
    THEN Returned(Null)
    ELSE IF ~startsWith(apiKey, KEY_PREFIX) THEN Returned(Null)
    ELSE LET keyHash == hashKey(apiKey)
             data == loadKeys(f)
         IN  IF ~HasKeyList(data) THEN Threw("TypeError")        \* data.keys.find
             ELSE LET i == findByHash(data.keys, keyHash)
                  IN  IF i = 0 THEN Returned(Null)
                      ELSE Returned([ id        |-> data.keys[i].id,
                                      name      |-> data.keys[i].name,
                                      enabled   |-> data.keys[i].enabled,
                                      createdAt |-> data.keys[i].createdAt ])

\* listKeys()
listKeys_buggy_newestFirst(f) ==
    LET data == loadKeys(f)
        n == Len(data.keys)
    IN  IF ~HasKeyList(data) THEN Threw("TypeError")
        ELSE Returned([i \in 1..n |->
                        [ id        |-> data.keys[n + 1 - i].id,
                          name      |-> data.keys[n + 1 - i].name,
                          keyPrefix |-> data.keys[n + 1 - i].keyPrefix,
                          enabled   |-> data.keys[n + 1 - i].enabled,
                          createdAt |-> data.keys[n + 1 - i].createdAt ]])

listKeys(f) ==
    LET data == loadKeys(f)
    IN  IF ~HasKeyList(data) THEN Threw("TypeError")             \* data.keys.map
        ELSE Returned([i \in 1..Len(data.keys) |->
                        [ id        |-> data.keys[i].id,
                          name      |-> data.keys[i].name,
                          keyPrefix |-> data.keys[i].keyPrefix,
                          enabled   |-> data.keys[i].enabled,
                          createdAt |-> data.keys[i].createdAt ]])

\* getEnabledKeyCount()
getEnabledKeyCount(f) ==
    LET data == loadKeys(f)
    IN  IF ~HasKeyList(data) THEN Threw("TypeError")             \* data.keys.filter
        ELSE Returned(Len(filterEnabled(data.keys)))

\* hasKeys()
hasKeys_buggy_always(f) ==
    LET data == loadKeys(f)
    IN  IF ~HasKeyList(data) THEN Threw("TypeError")
        ELSE Returned(Len(data.keys) >= 0)

hasKeys(f) ==
    LET data == loadKeys(f)
    IN  IF ~HasKeyList(data) THEN Threw("TypeError")             \* data.keys.length
        ELSE Returned(Len(data.keys) > 0)

\* ------------------------------------------------------------ gatekeeper
Str_health == << "/", "h", "e", "a", "l", "t", "h" >>
Str_true == << "t", "r", "u", "e" >>

PUBLIC_ENDPOINTS == << Str_health >>

\* isPublicEndpoint(path)
isPublicEndpoint_buggy_exactOnly(path) ==
    \E n \in 1..Len(PUBLIC_ENDPOINTS) : path = PUBLIC_ENDPOINTS[n]

isPublicEndpoint(path) ==
    \E n \in 1..Len(PUBLIC_ENDPOINTS) :
        LET ep == PUBLIC_ENDPOINTS[n]
        IN  path = ep \/ startsWith(path, ep \o << "/" >>)

\* req.apiKeyInfo when the middleware has not set it
NoObject == [undefined |-> TRUE]

\* what the middleware did with the request: next() with req.apiKeyInfo as
\* left, or res.status(status).json({error: {type, message}})
CallNext(info) ==
    [next |-> TRUE, status |-> 0, type |-> "", message |-> "", apiKeyInfo |-> info]

Reject(status, type, message) ==
    [next |-> FALSE, status |-> status, type |-> type, message |-> message,
     apiKeyInfo |-> NoObject]

MSG_NO_KEYS == "No API keys configured. Please run: npm run api-keys:add"
MSG_MISSING == "Missing API key. Please provide x-api-key header."
MSG_INVALID == "Invalid API key."
MSG_DISABLED == "API key is disabled."

\* process.env.SKIP_API_KEY_AUTH === 'true'
skipAuth_buggy_truthy(skip) == skip # undefined /\ skip # <<>>

skipAuth(skip) == skip = Str_true

\* apiKeyMiddleware(req, res, next) for req.path = path,
\* req.headers['x-api-key'] = apiKey, process.env.SKIP_API_KEY_AUTH = skip
\* a disabled key is answered as an unknown key
apiKeyMiddleware_buggy_foldsDisabled(f, skip, path, apiKey) ==
    IF isPublicEndpoint(path) THEN Returned(CallNext(NoObject))
    ELSE IF skipAuth(skip) THEN Returned(CallNext(NoObject))
    ELSE LET any == hasKeys(f)
         IN  IF any.threw # NoError THEN Threw(any.threw)
             ELSE IF ~any.ret
                  THEN Returned(Reject(503, "configuration_error", MSG_NO_KEYS))
             ELSE IF apiKey = undefined \/ apiKey = <<>>
                  THEN Returned(Reject(401, "authentication_error", MSG_MISSING))
             ELSE LET keyInfo == validateKey(f, apiKey)
                  IN  IF keyInfo.threw # NoError THEN Threw(keyInfo.threw)
                      ELSE IF keyInfo.ret = Null
                           THEN Returned(Reject(401, "authentication_error", MSG_INVALID))
                      ELSE IF ~keyInfo.ret.enabled
                           THEN Returned(Reject(401, "authentication_error", MSG_INVALID))
                      ELSE Returned(CallNext(keyInfo.ret))

\* a request is let through when the store cannot be read
apiKeyMiddleware_buggy_failsOpen(f, skip, path, apiKey) ==
    IF isPublicEndpoint(path) THEN Returned(CallNext(NoObject))
    ELSE IF skipAuth(skip) THEN Returned(CallNext(NoObject))
    ELSE LET any == hasKeys(f)
         IN  IF any.threw # NoError THEN Returned(CallNext(NoObject))
             ELSE IF ~any.ret
                  THEN Returned(Reject(503, "configuration_error", MSG_NO_KEYS))
             ELSE IF apiKey = undefined \/ apiKey = <<>>
                  THEN Returned(Reject(401, "authentication_error", MSG_MISSING))
             ELSE LET keyInfo == validateKey(f, apiKey)
                  IN  IF keyInfo.threw # NoError THEN Threw(keyInfo.threw)
                      ELSE IF keyInfo.ret = Null
                           THEN Returned(Reject(401, "authentication_error", MSG_INVALID))
                      ELSE IF ~keyInfo.ret.enabled
                           THEN Returned(Reject(401, "authentication_error", MSG_DISABLED))
                      ELSE Returned(CallNext(keyInfo.ret))

apiKeyMiddleware(f, skip, path, apiKey) ==
    IF isPublicEndpoint(path) THEN Returned(CallNext(NoObject))
    ELSE IF skipAuth(skip) THEN Returned(CallNext(NoObject))
    ELSE LET any == hasKeys(f)
         IN  IF any.threw # NoError THEN Threw(any.threw)
             ELSE IF ~any.ret
                  THEN Returned(Reject(503, "configuration_error", MSG_NO_KEYS))
             ELSE IF apiKey = undefined \/ apiKey = <<>>
                  THEN Returned(Reject(401, "authentication_error", MSG_MISSING))
             ELSE LET keyInfo == validateKey(f, apiKey)
                  IN  IF keyInfo.threw # NoError THEN Threw(keyInfo.threw)
                      ELSE IF keyInfo.ret = Null
                           THEN Returned(Reject(401, "authentication_error", MSG_INVALID))
                      ELSE IF ~keyInfo.ret.enabled
                           THEN Returned(Reject(401, "authentication_error", MSG_DISABLED))
                      ELSE Returned(CallNext(keyInfo.ret))

\* String(n) for the key counts of the model
numberToString(n) == HexDigits[n + 1]

MSG_AUTH_DISABLED == << "API Key Auth: DISABLED (SKIP_API_KEY_AUTH=true)" >>
MSG_AUTH_NO_KEYS == << "API Key Auth: No keys configured!" >>

\* `API Key Auth: Enabled (${keyCount} active key${keyCount !== 1 ? 's' : ''})`
MSG_AUTH_ENABLED(keyCount) ==
    << "API Key Auth: Enabled (", numberToString(keyCount), " active key",
       IF keyCount # 1 THEN "s" ELSE "", ")" >>

\* getAuthStatus()
getAuthStatus_buggy_countsAll(f, skip) ==
    LET keyCount == listKeys(f)
        hasAnyKeys == hasKeys(f)
        isDisabled == skipAuth(skip)
    IN  IF keyCount.threw # NoError THEN Threw(keyCount.threw)
        ELSE IF hasAnyKeys.threw # NoError THEN Threw(hasAnyKeys.threw)
        ELSE Returned([ enabled    |-> ~isDisabled /\ hasAnyKeys.ret,
                        keyCount   |-> Len(keyCount.ret),
                        isDisabled |-> isDisabled,
                        message    |-> IF isDisabled THEN MSG_AUTH_DISABLED
                                       ELSE IF hasAnyKeys.ret
                                            THEN MSG_AUTH_ENABLED(Len(keyCount.ret))
                                       ELSE MSG_AUTH_NO_KEYS ])

getAuthStatus(f, skip) ==
    LET keyCount == getEnabledKeyCount(f)
        hasAnyKeys == hasKeys(f)
        isDisabled == skipAuth(skip)
    IN  IF keyCount.threw # NoError THEN Threw(keyCount.threw)
        ELSE IF hasAnyKeys.threw # NoError THEN Threw(hasAnyKeys.threw)
        ELSE Returned([ enabled    |-> ~isDisabled /\ hasAnyKeys.ret,
                        keyCount   |-> keyCount.ret,
                        isDisabled |-> isDisabled,
                        message    |-> IF isDisabled THEN MSG_AUTH_DISABLED
                                       ELSE IF hasAnyKeys.ret
                                            THEN MSG_AUTH_ENABLED(keyCount.ret)
                                       ELSE MSG_AUTH_NO_KEYS ])

\* ---------------------------------------------------------------- inputs
\* names passed to addKey, and lines typed at the prompt of the CLI
Names == { <<>>, << " " >>, << "p" >> }
Lines == { <<>>, << " ", " " >>, << " ", "p", " " >> }

\* ids passed to removeKey, disableKey and enableKey
Ids == { IdOf(d) : d \in 0..MaxKeys }

\* values passed to validateKey: those of the header and a non-string
Arguments == Headers \cup { NonString }

Paths ==
    { Str_health,
      Str_health \o << "/" >>,
      Str_health \o << "/", "x" >>,
      Str_health \o << "z" >>,
      << "/", "v", "1" >> }

EnvValues == { undefined, Str_true, << "T", "R", "U", "E" >>, << "1" >>, <<>> }

\* processes that can be inside a store function at the same time: runs of
\* the CLI, each of which carries out one command and exits
Writers == 1..MaxRuns

\* a run not started yet, and a run that has exited
Idle == [op |-> "idle"]
Exited == [op |-> "exit"]

\* the call `now` is a disableKey or enableKey that returned true and
\* repeats the call `before`, which had returned true
Repeats(before, now) ==
    /\ now.op \in { "disableKey", "enableKey" }
    /\ before.op = now.op
    /\ before.arg = now.arg
    /\ before.threw = NoError /\ before.ret
    /\ now.threw = NoError /\ now.ret

\* ------------------------------------------------------------------ Init
\* No configuration directory yet, nothing issued; Init leaves env to the
\* specification.
InitStore ==
    /\ dirExists = FALSE
    /\ file = Missing
    /\ clock = 0
    /\ drawn = 0
    /\ last = Call("start", undefined, Returned(undefined))
    /\ issued = {}
    /\ revoked = {}
    /\ removed = {}
    /\ repeated = FALSE
    /\ pending = [w \in Writers |-> Idle]

\* the CLI process: SKIP_API_KEY_AUTH plays no part
Init == InitStore /\ env = undefined

\* the server process is started with any value of SKIP_API_KEY_AUTH
InitGate == InitStore /\ env \in EnvValues

\* --------------------------------------------------------------- actions
\* A store function runs to its end: the save it makes has outcome w.
StoreStep(op, arg, step, w) ==
    /\ w = "ok" \/ step.writes
    /\ file' = IF step.writes THEN saveKeysFile(step.data, w) ELSE file
    /\ dirExists' = IF step.writes THEN saveKeysDir(w) ELSE dirExists
    /\ last' = Call(op, arg, IF step.writes /\ w # "ok" THEN Threw(w) ELSE step.res)
    /\ repeated' = Repeats(last, last')
    /\ UNCHANGED pending

AddKeyW(name, w) ==
    /\ drawn < MaxKeys
    /\ LET d == drawn + 1
           apiKey == SecretOf(d)
           id == IdOf(d)
       IN  /\ StoreStep("addKey", name, addKey(file, name, apiKey, id, clock + 1), w)
           /\ drawn' = d
           /\ clock' = clock + 1
           /\ issued' = IF last'.threw = NoError THEN issued \cup {d} ELSE issued
           /\ UNCHANGED << env, revoked, removed >>

RemoveKeyW(id, w) ==
    /\ StoreStep("removeKey", id, removeKey(file, id), w)
    /\ removed' = IF last'.threw = NoError /\ last'.ret THEN removed \cup {id} ELSE removed
    /\ UNCHANGED << env, clock, drawn, issued, revoked >>

DisableKeyW(id, w) ==
    /\ StoreStep("disableKey", id, disableKey(file, id), w)
    /\ revoked' = IF last'.threw = NoError /\ last'.ret THEN revoked \cup {id} ELSE revoked
    /\ UNCHANGED << env, clock, drawn, issued, removed >>

EnableKeyW(id, w) ==
    /\ StoreStep("enableKey", id, enableKey(file, id), w)
    /\ revoked' = IF last'.threw = NoError /\ last'.ret THEN revoked \ {id} ELSE revoked
    /\ UNCHANGED << env, clock, drawn, issued, removed >>

\* the store functions, every write succeeding
AddKey == \E name \in Names : AddKeyW(name, "ok")
RemoveKey == \E id \in Ids : RemoveKeyW(id, "ok")
DisableKey == \E id \in Ids : DisableKeyW(id, "ok")
EnableKey == \E id \in Ids : EnableKeyW(id, "ok")

ReadOnlyStep(op, arg, res) ==
    /\ last' = Call(op, arg, res)
    /\ repeated' = FALSE
    /\ UNCHANGED << dirExists, file, env, clock, drawn, issued, revoked, removed, pending >>

ValidateKey == \E apiKey \in Arguments : ReadOnlyStep("validateKey", apiKey, validateKey(file, apiKey))
ListKeys == ReadOnlyStep("listKeys", undefined, listKeys(file))

\* add(rl) of the CLI: the line read at the prompt
CliAdd ==
    \E line \in Lines :
        IF line = <<>> \/ Len(trim(line)) = 0
        THEN ReadOnlyStep("cli.add", line, Returned(<< "Name cannot be empty." >>))
        ELSE AddKeyW(trim(line), "ok")

\* the store as its callers drive it: the CLI and direct calls of the
\* exported functions
Next ==
    \/ AddKey
    \/ RemoveKey
    \/ DisableKey
    \/ EnableKey
    \/ ValidateKey
    \/ ListKeys
    \/ CliAdd

Spec == Init /\ [][Next]_vars

\* ------------------------------------------------------------ the server
\* one request through the middleware
Request ==
    \E path \in Paths, apiKey \in Headers :
        ReadOnlyStep("request", [path |-> path, apiKey |-> apiKey],
                     apiKeyMiddleware(file, env, path, apiKey))

\* the status summary is asked for
GetAuthStatus == ReadOnlyStep("getAuthStatus", undefined, getAuthStatus(file, env))

\* the operator issues a key through the CLI, under the name typed
IssueKey == AddKeyW(<< "p" >>, "ok")

\* the server answering requests while the operator manages the keys
NextGate ==
    \/ IssueKey
    \/ RemoveKey
    \/ DisableKey
    \/ EnableKey
    \/ Request
    \/ GetAuthStatus

SpecGate == InitGate /\ [][NextGate]_vars

\* ---------------------------------------------------------------- faults
\* the store functions, the write failing
AddKeyWriteFails == \E name \in Names, w \in WriteFailures : AddKeyW(name, w)
RemoveKeyWriteFails == \E id \in Ids, w \in WriteFailures : RemoveKeyW(id, w)
DisableKeyWriteFails == \E id \in Ids, w \in WriteFailures : DisableKeyW(id, w)
EnableKeyWriteFails == \E id \in Ids, w \in WriteFailures : EnableKeyW(id, w)

\* the backing document is replaced from outside with content that is no
\* store document, or deleted
ReplaceFile ==
    \E content \in { Garbage } \cup { JSONstringify(v) : v \in WrongShapes } :
        /\ file' = content
        /\ dirExists' = TRUE
        /\ last' = Call("fs.replace", undefined, Returned(undefined))
        /\ repeated' = FALSE
        /\ UNCHANGED << env, clock, drawn, issued, revoked, removed, pending >>

DeleteFile ==
    /\ file # Missing
    /\ file' = Missing
    /\ last' = Call("fs.unlink", undefined, Returned(undefined))
    /\ repeated' = FALSE
    /\ UNCHANGED << dirExists, env, clock, drawn, issued, revoked, removed, pending >>

\* the store with storage faults
NextFault ==
    \/ Next
    \/ AddKeyWriteFails
    \/ RemoveKeyWriteFails
    \/ DisableKeyWriteFails
    \/ EnableKeyWriteFails
    \/ ReplaceFile
    \/ DeleteFile

SpecFault == Init /\ [][NextFault]_vars

\* the server while the backing document is replaced or deleted from outside
NextGateFault ==
    \/ NextGate
    \/ ReplaceFile
    \/ DeleteFile

SpecGateFault == InitGate /\ [][NextGateFault]_vars

\* ------------------------------------------------- concurrent processes
\* Runs of the CLI at the same time, numbered in the order they start.  A
\* store function that writes is two steps of its process, the readFileSync
\* of loadKeys and the writeFileSync of saveKeys; steps of the other
\* processes can come between.  A call that does not get to saveKeys returns
\* in its first step.

\* what the function the writer is in passes to saveKeys and returns, from
\* the document it read
Computed(p) ==
    CASE p.op = "addKey" -> addKey(p.read, p.arg, SecretOf(p.draw), IdOf(p.draw), p.now)
      [] p.op = "removeKey" -> removeKey(p.read, p.arg)
      [] p.op = "disableKey" -> disableKey(p.read, p.arg)
      [] p.op = "enableKey" -> enableKey(p.read, p.arg)

\* loadKeys() in writer w: the document is read
Begin(w, op, arg) ==
    /\ pending[w].op = "idle"
    /\ IF w = 1 THEN TRUE ELSE pending[w - 1].op # "idle"
    /\ LET p == [op |-> op, arg |-> arg, read |-> file, draw |-> drawn + 1, now |-> clock + 1]
       IN  IF Computed(p).writes
           THEN /\ pending' = [pending EXCEPT ![w] = p]
                /\ UNCHANGED last
           ELSE /\ last' = Call(op, arg, Computed(p).res)
                /\ pending' = [pending EXCEPT ![w] = Exited]
    /\ repeated' = FALSE
    /\ UNCHANGED << dirExists, file, env, issued, revoked, removed >>

\* saveKeys(data) in writer w, then the return of the function
Finish_buggy_readsAgain(w) ==
    /\ pending[w].op \notin { "idle", "exit" }
    /\ LET p == [pending[w] EXCEPT !.read = file]
           step == Computed(p)
       IN  /\ file' = IF step.writes THEN saveKeysFile(step.data, "ok") ELSE file
           /\ dirExists' = TRUE
           /\ last' = Call(p.op, p.arg, step.res)
           /\ issued' = IF p.op = "addKey" THEN issued \cup { p.draw } ELSE issued
           /\ removed' = IF p.op = "removeKey" THEN removed \cup { p.arg } ELSE removed
           /\ revoked' = IF p.op = "disableKey" THEN revoked \cup { p.arg }
                         ELSE IF p.op = "enableKey" THEN revoked \ { p.arg }
                         ELSE revoked
    /\ pending' = [pending EXCEPT ![w] = Exited]
    /\ repeated' = FALSE
    /\ UNCHANGED << env, clock, drawn >>

Finish(w) ==
    /\ pending[w].op \notin { "idle", "exit" }
    /\ LET p == pending[w]
           step == Computed(p)
       IN  /\ file' = saveKeysFile(step.data, "ok")
           /\ dirExists' = TRUE
           /\ last' = Call(p.op, p.arg, step.res)
           /\ issued' = IF p.op = "addKey" THEN issued \cup { p.draw } ELSE issued
           /\ removed' = IF p.op = "removeKey" THEN removed \cup { p.arg } ELSE removed
           /\ revoked' = IF p.op = "disableKey" THEN revoked \cup { p.arg }
                         ELSE IF p.op = "enableKey" THEN revoked \ { p.arg }
                         ELSE revoked
    /\ pending' = [pending EXCEPT ![w] = Exited]
    /\ repeated' = FALSE
    /\ UNCHANGED << env, clock, drawn >>

\* the ids the operators of the two processes have seen
IdsGenerated == { IdOf(d) : d \in 1..drawn }

BeginAddKey ==
    \E w \in Writers :
        /\ drawn < MaxKeys
        /\ Begin(w, "addKey", << "p" >>)
        /\ drawn' = drawn + 1
        /\ clock' = clock + 1

BeginRemoveKey ==
    \E w \in Writers, id \in IdsGenerated :
        Begin(w, "removeKey", id) /\ UNCHANGED << clock, drawn >>

BeginDisableKey ==
    \E w \in Writers, id \in IdsGenerated :
        Begin(w, "disableKey", id) /\ UNCHANGED << clock, drawn >>

BeginEnableKey ==
    \E w \in Writers, id \in IdsGenerated :
        Begin(w, "enableKey", id) /\ UNCHANGED << clock, drawn >>

EndWrite == \E w \in Writers : Finish(w)

NextRace ==
    \/ BeginAddKey
    \/ BeginRemoveKey
    \/ BeginDisableKey
    \/ BeginEnableKey
    \/ EndWrite

SpecRace == Init /\ [][NextRace]_vars

\* ============================================================ properties
\* the records on disk, read off the document itself
StoreReadable == file.kind = "json" /\ "keys" \in DOMAIN file.value
StoredKeys == IF StoreReadable THEN file.value.keys ELSE <<>>

\* the paths of Paths outside and inside PUBLIC_ENDPOINTS
ProtectedPaths == { << "/", "h", "e", "a", "l", "t", "h", "z" >>, << "/", "v", "1" >> }
PublicPaths == { << "/", "h", "e", "a", "l", "t", "h" >>,
                 << "/", "h", "e", "a", "l", "t", "h", "/" >>,
                 << "/", "h", "e", "a", "l", "t", "h", "/", "x" >> }

IsRequest == last.op = "request"
OverrideActive == env = << "t", "r", "u", "e" >>
Accepted == last.threw = NoError /\ last.ret.next
RejectedWith(status, type, message) ==
    /\ last.threw = NoError
    /\ ~last.ret.next
    /\ last.ret.status = status
    /\ last.ret.type = type
    /\ last.ret.message = message

\* header h is the raw secret of the stored record i
HashesTo(h, i) == h # undefined /\ StoredKeys[i].keyHash = hashKey(h)

\* ---------------------------------------------------------------- C1
\* C1: a request to a non-public path, the override inactive and the store
\* non-empty, is accepted if and only if its x-api-key header hashes to a
\* stored record that is enabled; the projection attached to an accepted
\* request carries the id of that record and no hash field.
C1_AcceptsExactlyEnabledKeys ==
    (IsRequest /\ last.arg.path \in ProtectedPaths /\ ~OverrideActive
        /\ Len(StoredKeys) > 0)
    => /\ last.threw = NoError
       /\ last.ret.next <=>
            \E i \in 1..Len(StoredKeys) :
                HashesTo(last.arg.apiKey, i) /\ StoredKeys[i].enabled
       /\ last.ret.next =>
            /\ \E i \in 1..Len(StoredKeys) :
                /\ HashesTo(last.arg.apiKey, i)
                /\ StoredKeys[i].enabled
                /\ last.ret.apiKeyInfo.id = StoredKeys[i].id
            /\ DOMAIN last.ret.apiKeyInfo = { "id", "name", "enabled", "createdAt" }

\* the second of two stored keys is presented, the first being disabled
C1_Witness ==
    /\ IsRequest /\ last.arg.path \in ProtectedPaths /\ ~OverrideActive
    /\ Len(StoredKeys) = 2
    /\ ~StoredKeys[1].enabled
    /\ Accepted
    /\ last.ret.apiKeyInfo.id = StoredKeys[2].id

\* ---------------------------------------------------------------- C2
\* C2: when the store has no records, every request to a protected path with
\* the override inactive gets the configuration error (503), with or without
\* a credential: the empty-store check comes before the credential checks.
\* no document, a document that does not parse, or a store with an empty list
StoreEmpty ==
    \/ file.kind \in { "missing", "garbage" }
    \/ StoreReadable /\ StoredKeys = <<>>

C2_EmptyStoreIs503 ==
    (IsRequest /\ last.arg.path \in ProtectedPaths /\ ~OverrideActive /\ StoreEmpty)
    => RejectedWith(503, "configuration_error", MSG_NO_KEYS)

\* the store was emptied by removals and the request carries a secret that
\* was issued
C2_Witness ==
    /\ IsRequest /\ last.arg.path \in ProtectedPaths /\ ~OverrideActive
    /\ StoreReadable /\ StoredKeys = <<>>
    /\ \E d \in issued : last.arg.apiKey = SecretOf(d)
    /\ last.ret.status = 503

\* ---------------------------------------------------------------- C3
\* C3: a request whose path is a public path, or a public path followed by a
\* sub-path, is accepted without any header, whatever the store holds and
\* whatever the override is.
C3_PublicPathAccepted ==
    (IsRequest /\ last.arg.path \in PublicPaths) => Accepted

\* a sub-path of the public path, no header, every stored key disabled
C3_Witness ==
    /\ IsRequest
    /\ last.arg.path = << "/", "h", "e", "a", "l", "t", "h", "/", "x" >>
    /\ last.arg.apiKey = undefined
    /\ ~OverrideActive
    /\ Len(StoredKeys) > 0
    /\ \A i \in 1..Len(StoredKeys) : ~StoredKeys[i].enabled
    /\ Accepted

\* ---------------------------------------------------------------- C4
\* C4: the override accepts every request exactly when the variable is the
\* string "true"; under any other value (unset, "TRUE", "1", empty) a
\* protected request is accepted only through the remaining checks: never
\* on an empty store, never without a credential that hashes to an enabled
\* stored record.
C4_OverrideOnlyLiteralTrue ==
    IsRequest =>
        /\ OverrideActive => Accepted
        /\ (~OverrideActive /\ last.arg.path \in ProtectedPaths) =>
             /\ last.threw = NoError
             /\ last.ret.next <=>
                    \E i \in 1..Len(StoredKeys) :
                        HashesTo(last.arg.apiKey, i) /\ StoredKeys[i].enabled
             /\ ~last.ret.next => last.ret.status \in { 401, 503 }

\* override on: a protected request without header passes on an empty store
C4_Witness ==
    /\ IsRequest /\ last.arg.path \in ProtectedPaths
    /\ OverrideActive
    /\ last.arg.apiKey = undefined
    /\ StoredKeys = <<>>
    /\ Accepted

\* ---------------------------------------------------------------- C5
\* the secret of a key addKey returned, by the id of the key
IssuedAs(h, id) == \E d \in issued : h = SecretOf(d) /\ id = IdOf(d)

\* C5 as stated: once disableKey(id) has returned true, a protected request
\* with the secret of that key gets "API key is disabled." (401) until
\* enableKey(id) returns true, and once removeKey(id) has returned true no
\* request with that secret is accepted.
C5_DisabledUntilEnabled ==
    (IsRequest /\ last.arg.path \in ProtectedPaths /\ ~OverrideActive)
    => \A id \in Ids :
        IssuedAs(last.arg.apiKey, id) =>
            /\ id \in revoked => RejectedWith(401, "authentication_error", MSG_DISABLED)
            /\ id \in removed => ~Accepted

\* C5, amended: once disableKey(id) has returned true, a protected request
\* with the secret of that key gets "API key is disabled." (401) until
\* enableKey(id) or removeKey(id) returns true, and once removeKey(id) has
\* returned true no request with that secret is accepted.
C5_DisabledUntilEnabledOrRemoved ==
    (IsRequest /\ last.arg.path \in ProtectedPaths /\ ~OverrideActive)
    => \A id \in Ids :
        IssuedAs(last.arg.apiKey, id) =>
            /\ id \in revoked \ removed
                  => RejectedWith(401, "authentication_error", MSG_DISABLED)
            /\ id \in removed => ~Accepted

\* a disabled key is presented while another key is enabled
C5_Witness ==
    /\ IsRequest /\ last.arg.path \in ProtectedPaths /\ ~OverrideActive
    /\ \E id \in revoked \ removed : IssuedAs(last.arg.apiKey, id)
    /\ \E i \in 1..Len(StoredKeys) : StoredKeys[i].enabled
    /\ last.ret.message = MSG_DISABLED

\* ---------------------------------------------------------------- C6
\* C6: the record addKey returns has keyHash = hashKey(apiKey) for the raw
\* secret returned with it, and validateKey of that secret, as long as no
\* removeKey or disableKey of the key has succeeded since, finds the key and
\* reports enabled = true.
C6_AddThenValidate ==
    /\ (last.op = "addKey" /\ last.threw = NoError)
        => /\ last.ret.keyHash = hashKey(last.ret.apiKey)
           /\ last.ret.enabled
    /\ last.op = "validateKey"
        => \A d \in issued :
            (last.arg = SecretOf(d) /\ IdOf(d) \notin removed \cup revoked)
            => /\ last.threw = NoError
               /\ last.ret # Null
               /\ last.ret.id = IdOf(d)
               /\ last.ret.enabled

\* the first key is validated after a second key was added
C6_Witness ==
    /\ last.op = "validateKey"
    /\ 1 \in issued /\ 2 \in issued
    /\ last.arg = SecretOf(1)
    /\ IdOf(1) \notin removed \cup revoked
    /\ last.ret # Null
    /\ last.ret.enabled

\* ---------------------------------------------------------------- C7
\* C7: addKey(name) with a name that is empty or only whitespace after
\* trimming throws ValidationError, appends no record and writes nothing.
C7_BlankNameRejected ==
    (last.op = "addKey" /\ Len(trim(last.arg)) = 0)
    => /\ last.threw = "ValidationError"
       /\ \A i \in 1..Len(StoredKeys) : Len(trim(StoredKeys[i].name)) # 0

\* ---------------------------------------------------------------- C8
\* the raw secrets generated so far
SecretsSoFar == { SecretOf(d) : d \in 1..drawn }

\* no string field of the object r is a raw secret
NoSecretIn(r) == \A f \in DOMAIN r \ { "enabled" } : r[f] \notin SecretsSoFar

\* C8: no field of a persisted record is a raw secret; a successful addKey
\* returns the secret it has just generated, in its apiKey field alone,
\* together with the record it has just stored, and the results of all other
\* operations (listKeys, validateKey, removeKey, disableKey, enableKey)
\* hold no raw secret.
C8_SecretOnlyFromAddKey ==
    /\ \A i \in 1..Len(StoredKeys) : NoSecretIn(StoredKeys[i])
    /\ (last.op = "addKey" /\ last.threw = NoError)
        => /\ last.ret.apiKey = SecretOf(drawn)
           /\ \A f \in DOMAIN last.ret \ { "enabled", "apiKey" } :
                last.ret[f] \notin SecretsSoFar
           /\ Len(StoredKeys) > 0
           /\ StoredKeys[Len(StoredKeys)].id = last.ret.id
           /\ StoredKeys[Len(StoredKeys)].keyHash = hashKey(last.ret.apiKey)
    /\ (last.op = "listKeys" /\ last.threw = NoError)
        => \A i \in 1..Len(last.ret) : NoSecretIn(last.ret[i])
    /\ (last.op = "validateKey" /\ last.threw = NoError)
        => last.ret = Null \/ NoSecretIn(last.ret)
    /\ (last.op \in { "removeKey", "disableKey", "enableKey" } /\ last.threw = NoError)
        => last.ret \in BOOLEAN

\* listKeys lists two keys after both secrets were handed out
C8_Witness ==
    /\ last.op = "listKeys"
    /\ last.threw = NoError
    /\ Len(last.ret) = 2
    /\ issued = { 1, 2 }

\* ---------------------------------------------------------------- C9
\* the backing document holds content that is no store document
DocumentInvalid ==
    \/ file.kind = "garbage"
    \/ file.kind = "json" /\ "keys" \notin DOMAIN file.value

\* C9: with the backing document replaced by invalid content, listKeys()
\* returns the empty list and does not throw, and an addKey whose write
\* succeeds returns its record and leaves a store holding just that record.
C9_InvalidDocumentDegrades ==
    /\ [](( last.op = "listKeys" /\ DocumentInvalid )
            => ( last.threw = NoError /\ last.ret = <<>> ))
    /\ [][ ( DocumentInvalid /\ last'.op = "addKey" /\ last'.threw \notin WriteFailures )
            => /\ last'.threw = NoError
               /\ file'.kind = "json"
               /\ "keys" \in DOMAIN file'.value
               /\ Len(file'.value.keys) = 1
               /\ file'.value.keys[1].id = last'.ret.id ]_vars

\* ---------------------------------------------------------------- C10
\* C10: when the write fails in addKey, removeKey, enableKey or disableKey
\* the call throws, and a read after it finds the store it found before.
C10_FailedWriteKeepsStore ==
    [][ last'.threw \in WriteFailures => loadKeys(file') = loadKeys(file) ]_vars

\* ---------------------------------------------------------------- C11
\* what a read of the document gives is a list of records (no document and
\* a document JSON.parse rejects give the empty list)
Loadable(f) == f.kind \in { "missing", "garbage" } \/ "keys" \in DOMAIN f.value
RecordsOf(f) ==
    IF f.kind = "json" /\ "keys" \in DOMAIN f.value THEN f.value.keys ELSE <<>>

\* C11: removeKey, enableKey and disableKey called with an id that no
\* record of the store has return false and do not throw, and the document
\* and the configuration directory are left as they were (nothing is
\* written).
C11_UnknownIdNotFound ==
    [][ ( /\ last'.op \in { "removeKey", "disableKey", "enableKey" }
          /\ Loadable(file)
          /\ \A i \in 1..Len(RecordsOf(file)) : RecordsOf(file)[i].id # last'.arg )
        => /\ last'.threw = NoError
           /\ last'.ret = FALSE
           /\ file' = file
           /\ dirExists' = dirExists ]_vars

\* the id of a removed key is passed to enableKey while another key is stored
C11_Witness ==
    /\ last.op = "enableKey"
    /\ last.arg \in removed
    /\ last.threw = NoError
    /\ last.ret = FALSE
    /\ Len(StoredKeys) = 1
    /\ StoredKeys[1].id # last.arg

\* ---------------------------------------------------------------- C12
\* C12: disableKey(id) called right after a disableKey(id) that returned
\* true returns true again, leaves the record with enabled = false and
\* leaves the document as the first call left it; the same for enableKey
\* with enabled = true (the write of the second call succeeding).
C12_EnableDisableIdempotent ==
    [][ ( /\ last.op \in { "disableKey", "enableKey" }
          /\ last.threw = NoError /\ last.ret
          /\ last'.op = last.op
          /\ last'.arg = last.arg
          /\ last'.threw \notin WriteFailures )
        => /\ last'.threw = NoError
           /\ last'.ret = TRUE
           /\ file' = file
           /\ \E i \in 1..Len(RecordsOf(file')) :
                /\ RecordsOf(file')[i].id = last'.arg
                /\ RecordsOf(file')[i].enabled = (last'.op = "enableKey") ]_vars

\* the second of two disableKey calls in a row has returned true, another
\* key staying enabled
C12_Witness ==
    /\ repeated
    /\ last.op = "disableKey"
    /\ last.ret = TRUE
    /\ Len(StoredKeys) = 2
    /\ \E i, j \in 1..2 :
        /\ StoredKeys[i].id = last.arg /\ ~StoredKeys[i].enabled
        /\ StoredKeys[j].id # last.arg /\ StoredKeys[j].enabled

\* ---------------------------------------------------------------- C13
\* s is a strict prefix of the secret, of at least one character, followed
\* by the ellipsis "..."
PrefixThenEllipsis(s, secret) ==
    \E n \in 1..(Len(secret) - 1) :
        s = SubSeq(secret, 1, n) \o << ".", ".", "." >>

\* C13: when addKey(name) has returned, listKeys() gives the list it gave
\* before the call with one entry appended: the earlier entries are the same
\* and in the same order, the new entry has the name passed and a keyPrefix
\* that is a strict prefix of the secret returned followed by "...".  No
\* entry of a list listKeys returns has a keyHash field.
C13_ListAfterAdd ==
    /\ []( (last.op = "listKeys" /\ last.threw = NoError)
            => \A i \in 1..Len(last.ret) :
                DOMAIN last.ret[i] = { "id", "name", "keyPrefix", "enabled", "createdAt" } )
    /\ [][ (last'.op = "addKey" /\ last'.threw = NoError)
            => LET before == listKeys(file)
                   after == listKeys(file')
               IN  /\ before.threw = NoError /\ after.threw = NoError
                   /\ Len(after.ret) = Len(before.ret) + 1
                   /\ SubSeq(after.ret, 1, Len(before.ret)) = before.ret
                   /\ after.ret[Len(after.ret)].name = last'.arg
                   /\ after.ret[Len(after.ret)].id = last'.ret.id
                   /\ PrefixThenEllipsis(after.ret[Len(after.ret)].keyPrefix,
                                         last'.ret.apiKey)
                   /\ \A i \in 1..Len(after.ret) : "keyHash" \notin DOMAIN after.ret[i]
        ]_vars

\* a second key was added after the first was disabled: listKeys lists the
\* first, still disabled, then the second under its name
C13_Witness ==
    /\ last.op = "addKey" /\ last.threw = NoError
    /\ listKeys(file).threw = NoError
    /\ Len(listKeys(file).ret) = 2
    /\ ~listKeys(file).ret[1].enabled
    /\ listKeys(file).ret[2].name = last.arg
    /\ listKeys(file).ret[2].id = last.ret.id

\* ---------------------------------------------------------------- C14
\* v is a string that begins with "sk-ant-"
WellFormed(v) ==
    /\ v \notin { << "undefined" >>, << "number" >> }
    /\ Len(v) >= 7
    /\ SubSeq(v, 1, 7) = << "s", "k", "-", "a", "n", "t", "-" >>

\* C14: on a store that loads as a list of records validateKey does not
\* throw; it returns null, the same value in all these cases, for
\* undefined, the empty string and a non-string, for a string without the
\* prefix, and for a string with the prefix whose hash no record holds;
\* otherwise it returns {id, name, enabled, createdAt} of the record with
\* that hash, enabled or not, and no other field.  It writes nothing.
C14_ValidateFailsClosed ==
    /\ []( (last.op = "validateKey" /\ Loadable(file))
            => /\ last.threw = NoError
               /\ IF /\ WellFormed(last.arg)
                     /\ \E i \in 1..Len(RecordsOf(file)) :
                            RecordsOf(file)[i].keyHash = hashKey(last.arg)
                  THEN /\ DOMAIN last.ret = { "id", "name", "enabled", "createdAt" }
                       /\ \E i \in 1..Len(RecordsOf(file)) :
                            /\ RecordsOf(file)[i].keyHash = hashKey(last.arg)
                            /\ last.ret.id = RecordsOf(file)[i].id
                            /\ last.ret.name = RecordsOf(file)[i].name
                            /\ last.ret.enabled = RecordsOf(file)[i].enabled
                            /\ last.ret.createdAt = RecordsOf(file)[i].createdAt
                  ELSE last.ret = [object |-> "null"] )
    /\ [][ last'.op = "validateKey" => (file' = file /\ dirExists' = dirExists) ]_vars

\* the secret of a disabled key is validated: the projection is returned,
\* with enabled = false
C14_Witness ==
    /\ last.op = "validateKey"
    /\ last.threw = NoError
    /\ \E d \in issued : last.arg = SecretOf(d) /\ IdOf(d) \in revoked \ removed
    /\ DOMAIN last.ret = { "id", "name", "enabled", "createdAt" }
    /\ ~last.ret.enabled

\* ---------------------------------------------------------------- C15
\* the ids addKey has returned so far
IdsIssued == { IdOf(d) : d \in issued }

\* C15: no two records of the store have the same id, and the id a
\* successful addKey assigns is the id of no record of the store, of no
\* record addKey returned earlier and of no record removed since
\* (crypto.randomBytes giving no two calls the same bytes).
C15_IdsUniqueNeverReused ==
    /\ [](\A i, j \in 1..Len(StoredKeys) :
            i # j => StoredKeys[i].id # StoredKeys[j].id)
    /\ [][ (last'.op = "addKey" /\ last'.threw = NoError)
            => /\ last'.ret.id \notin IdsIssued
               /\ last'.ret.id \notin removed
               /\ \A i \in 1..Len(RecordsOf(file)) :
                    RecordsOf(file)[i].id # last'.ret.id ]_vars

\* a key is added after the only key of the store was removed
C15_Witness ==
    /\ last.op = "addKey" /\ last.threw = NoError
    /\ removed # {}
    /\ last.ret.id \notin removed
    /\ Len(StoredKeys) = 1
    /\ StoredKeys[1].id = last.ret.id

\* ---------------------------------------------------------------- C16
\* the response of a rejected request: status and error body
Response == [status |-> last.ret.status, type |-> last.ret.type, message |-> last.ret.message]

MissingCredential ==
    [status |-> 401, type |-> "authentication_error",
     message |-> "Missing API key. Please provide x-api-key header."]
InvalidCredential ==
    [status |-> 401, type |-> "authentication_error", message |-> "Invalid API key."]
DisabledCredential ==
    [status |-> 401, type |-> "authentication_error", message |-> "API key is disabled."]
ConfigurationError ==
    [status |-> 503, type |-> "configuration_error",
     message |-> "No API keys configured. Please run: npm run api-keys:add"]

\* C16: a request to a protected path, the override inactive and the store
\* holding a record, is answered: without a credential (no header or an
\* empty one) by the missing-credential response; with a credential whose
\* hash no record holds by the invalid-credential response; with the secret
\* of a disabled record by the disabled-credential response.  The three
\* responses are pairwise different and have status 401; on a store
\* without records the response is the configuration error, status 503.
C16_RejectionsClassified ==
    /\ MissingCredential # InvalidCredential
    /\ MissingCredential # DisabledCredential
    /\ InvalidCredential # DisabledCredential
    /\ (IsRequest /\ last.arg.path \in ProtectedPaths /\ ~OverrideActive /\ StoreReadable)
        => /\ last.threw = NoError
           /\ IF StoredKeys = <<>>
                THEN ~last.ret.next /\ Response = ConfigurationError
              ELSE IF last.arg.apiKey \in { << "undefined" >>, <<>> }
                THEN ~last.ret.next /\ Response = MissingCredential
              ELSE IF \A i \in 1..Len(StoredKeys) : ~HashesTo(last.arg.apiKey, i)
                THEN ~last.ret.next /\ Response = InvalidCredential
              ELSE IF \E i \in 1..Len(StoredKeys) :
                        HashesTo(last.arg.apiKey, i) /\ ~StoredKeys[i].enabled
                THEN ~last.ret.next /\ Response = DisabledCredential
              ELSE last.ret.next

\* the secret of a disabled key is presented while the other key is enabled
C16_Witness ==
    /\ IsRequest /\ last.arg.path \in ProtectedPaths /\ ~OverrideActive
    /\ Len(StoredKeys) = 2
    /\ \E i, j \in 1..2 :
        /\ HashesTo(last.arg.apiKey, i) /\ ~StoredKeys[i].enabled
        /\ StoredKeys[j].enabled
    /\ last.threw = NoError
    /\ Response = DisabledCredential

\* ---------------------------------------------------------------- C17
\* the number of enabled records of a document that loads as a list
EnabledCount(f) == Cardinality({ i \in 1..Len(RecordsOf(f)) : RecordsOf(f)[i].enabled })

\* C17 as stated: the status is a function of the override and of the number
\* of enabled keys: two stores with the same number of enabled keys, under
\* the same override, have the same status.
C17_StatusFromOverrideAndCount ==
    [][ ( /\ Loadable(file) /\ Loadable(file')
          /\ env' = env
          /\ EnabledCount(file') = EnabledCount(file) )
        => getAuthStatus(file', env') = getAuthStatus(file, env) ]_vars

\* the status for an override state, a number of enabled keys and a store
\* that holds records or none
StatusOf(override, count, any) ==
    [ enabled    |-> ~override /\ any,
      keyCount   |-> count,
      isDisabled |-> override,
      message    |->
        IF override THEN << "API Key Auth: DISABLED (SKIP_API_KEY_AUTH=true)" >>
        ELSE IF ~any THEN << "API Key Auth: No keys configured!" >>
        ELSE IF count = 1
             THEN << "API Key Auth: Enabled (", "1", " active key", "", ")" >>
        ELSE << "API Key Auth: Enabled (", HexDigits[count + 1], " active key", "s", ")" >> ]

\* C17, amended: the status is a function of the override, of the number of
\* enabled keys and of whether the store holds any record: disabled by the
\* override; enabled with N keys (N >= 1, or 0 when every record is
\* disabled); no keys configured when the store holds no record.  Two
\* stores that agree on the three have the same status.
C17_StatusFromOverrideCountAndAny ==
    /\ []( (last.op = "getAuthStatus" /\ Loadable(file))
            => /\ last.threw = NoError
               /\ last.ret = StatusOf(OverrideActive, EnabledCount(file),
                                      RecordsOf(file) # <<>>) )
    /\ [][ ( /\ Loadable(file) /\ Loadable(file')
              /\ env' = env
              /\ EnabledCount(file') = EnabledCount(file)
              /\ (RecordsOf(file') = <<>>) = (RecordsOf(file) = <<>>) )
            => getAuthStatus(file', env') = getAuthStatus(file, env) ]_vars

\* the status of a store whose only records are disabled: enabled, 0 keys
C17_Witness ==
    /\ last.op = "getAuthStatus"
    /\ last.threw = NoError
    /\ ~OverrideActive
    /\ Len(StoredKeys) = 2
    /\ \A i \in 1..Len(StoredKeys) : ~StoredKeys[i].enabled
    /\ last.ret.enabled
    /\ last.ret.keyCount = 0
    /\ last.ret.message = << "API Key Auth: Enabled (", "0", " active key", "s", ")" >>

\* ---------------------------------------------------------------- C18
\* the records of a document after the store function of p was applied to it
Applied(p, records) ==
    CASE p.op = "addKey" ->
            Append(records,
                   [ id        |-> IdOf(p.draw),
                     name      |-> p.arg,
                     keyHash   |-> hashKey(SecretOf(p.draw)),
                     keyPrefix |-> SubSeq(SecretOf(p.draw), 1, 12) \o << ".", ".", "." >>,
                     createdAt |-> toISOString(p.now),
                     enabled   |-> TRUE ])
      [] p.op = "removeKey" ->
            SelectSeq(records, LAMBDA k : k.id # p.arg)
      [] p.op \in { "disableKey", "enableKey" } ->
            [i \in 1..Len(records) |->
                IF records[i].id = p.arg
                THEN [records[i] EXCEPT !.enabled = (p.op = "enableKey")]
                ELSE records[i]]

\* C18: a store function does not lock the document between its read and
\* its write: when a writer writes, the document becomes the one its
\* function makes of the document that writer read, whatever the other
\* writers have written since that read; the last write decides the store
\* and a change written in between is gone.
C18_LastWriterWins ==
    [][ \A w \in Writers :
            (pending[w].op \notin { "idle", "exit" } /\ pending'[w].op = "exit")
            => /\ file'.kind = "json"
               /\ file'.value = [keys |-> Applied(pending[w], RecordsOf(pending[w].read))] ]_vars

\* every run has exited, two addKey calls have returned their records, no
\* removeKey was called, and the store holds one record
C18_Witness ==
    /\ \A w \in Writers : pending[w].op \in { "idle", "exit" }
    /\ issued = { 1, 2 }
    /\ removed = {}
    /\ Len(StoredKeys) = 1

\* ---------------------------------------------------------------- C19
\* record r with its enabled flag left out
Fixed(r) ==
    [ id |-> r.id, name |-> r.name, keyHash |-> r.keyHash,
      keyPrefix |-> r.keyPrefix, createdAt |-> r.createdAt ]

\* C19: a store function that returns leaves the records as follows.
\* addKey: the records there were, unchanged and in their order, then the
\* new one.  removeKey(id): the records with another id, unchanged and in
\* their order.  disableKey(id) and enableKey(id): the same records in the
\* same order with the same id, name, keyHash, keyPrefix and createdAt, the
\* enabled flag of a record with another id unchanged.  Every other call:
\* the same records.
C19_RecordsFramed ==
    [][ ( /\ last'.op \in { "addKey", "removeKey", "disableKey", "enableKey",
                            "validateKey", "listKeys", "cli.add" }
          /\ last'.threw = NoError )
        => LET old == RecordsOf(file)
               new == RecordsOf(file')
           IN  CASE last'.op = "addKey" ->
                        /\ Len(new) = Len(old) + 1
                        /\ SubSeq(new, 1, Len(old)) = old
                 [] last'.op = "removeKey" ->
                        new = SelectSeq(old, LAMBDA k : k.id # last'.arg)
                 [] last'.op \in { "disableKey", "enableKey" } ->
                        /\ Len(new) = Len(old)
                        /\ \A i \in 1..Len(old) :
                            /\ Fixed(new[i]) = Fixed(old[i])
                            /\ old[i].id # last'.arg => new[i].enabled = old[i].enabled
                            /\ (old[i].id = last'.arg /\ last'.ret)
                                    => new[i].enabled = (last'.op = "enableKey")
                 [] OTHER -> new = old ]_vars

\* the first of two keys was removed after the second was disabled: the
\* second is what addKey made it, but for its flag
C19_Witness ==
    /\ last.op = "removeKey" /\ last.threw = NoError /\ last.ret = TRUE
    /\ last.arg = IdOf(1)
    /\ Len(StoredKeys) = 1
    /\ StoredKeys[1].id = IdOf(2)
    /\ StoredKeys[1].keyHash = hashKey(SecretOf(2))
    /\ ~StoredKeys[1].enabled

\* ---------------------------------------------------------------- C20
\* C20: while the document is missing, is rejected by JSON.parse or parses
\* to something that is no list of records, no request to a protected path
\* is accepted with the override inactive, whatever its header: it gets the
\* configuration error (503) when the document is missing or does not parse,
\* and the middleware throws, next() not called, when it parses to another
\* shape.
C20_UnreadableStoreFailsClosed ==
    (IsRequest /\ last.arg.path \in ProtectedPaths /\ ~OverrideActive /\ ~StoreReadable)
    => /\ ~(last.threw = NoError /\ last.ret.next)
       /\ file.kind \in { "missing", "garbage" }
            => (last.threw = NoError /\ last.ret.status = 503)
       /\ file.kind = "json" => last.threw = "TypeError"

\* the secret of a key that was issued and neither disabled nor removed is
\* presented after the document was replaced by invalid content
C20_Witness ==
    /\ IsRequest /\ last.arg.path \in ProtectedPaths /\ ~OverrideActive
    /\ DocumentInvalid
    /\ \E d \in issued :
        /\ last.arg.apiKey = SecretOf(d)
        /\ IdOf(d) \notin revoked \cup removed
    /\ ~(last.threw = NoError /\ last.ret.next)

\* distinct header values have distinct hashes: the digest that stands for
\* SHA-256 has no collision on the strings of the model
HashInjectiveOnHeaders ==
    \A a, b \in Headers \ { undefined } : a # b => hashKey(a) # hashKey(b)

TypeOK ==
    /\ dirExists \in BOOLEAN
    /\ file.kind \in { "missing", "garbage", "json" }
    /\ env \in EnvValues
    /\ clock \in 0..MaxKeys

====
